---- MODULE Spec2Model ----
(***************************************************************************)
(* DEX/UCS vending machine simulator (dex_vending_machine_simulator.py):   *)
(* the driver loop of main, the two handshakes, the data transfer loop,    *)
(* the wait primitives, the CRC16 fold and the serial transport they use.  *)
(***************************************************************************)
EXTENDS Integers, Sequences, FiniteSets, TLC

(* ------------------------------ bounds -------------------------------- *)
\* capacity of the transport's input buffer in the model
MaxIn == 2
\* longest body the first handshake buffers in the model
MaxBody == 4
\* largest number of lines of the payload file
MaxLines == 2
\* largest number of NAK responses the peer gives to one data line
MaxNak == 2
\* ticks of the wall clock that make up the limit of a timed loop
DeadlineTicks == 2
\* longest body over which the two CRC folds are compared
MaxFold == 4
\* the CRC states 0..MaxState are among those dex_crc16 is applied to
MaxState == 3

(* ----------------------- protocol constants --------------------------- *)
ENQ == 5
EOT == 4
DLE == 16
NAK == <<21>>
SOH == 1
STX == 2
ETX == 3
ETB == 23
ACK0 == <<DLE, 48>>
ACK1 == <<DLE, 49>>
CR == 13
LF == 10
VMD_CommunicationID == <<83, 87, 82, 48, 48, 49, 48, 48, 48, 49>>
VMD_RevisionLevel == <<82, 48, 49, 76, 48, 49>>

(* ------------------------------ CRC16 ---------------------------------- *)
Bit(x, n) == (x \div (2 ^ n)) % 2

Xor1(a, b) == (a + b) % 2

RECURSIVE BitAnd(_, _)
BitAnd(x, y) ==
  IF x = 0 \/ y = 0 THEN 0
  ELSE ((x % 2) * (y % 2)) + 2 * BitAnd(x \div 2, y \div 2)

RECURSIVE BitOr(_, _)
BitOr(x, y) ==
  IF x = 0 THEN y
  ELSE IF y = 0 THEN x
  ELSE (IF (x % 2) + (y % 2) > 0 THEN 1 ELSE 0) + 2 * BitOr(x \div 2, y \div 2)

\* the pass without the feedback into bit 13
crc16_bit_no_x2(dwCRC, byte, j) ==
  LET DATA_0 == Bit(byte, j)
      BCC_0  == Bit(dwCRC, 0)
      BCC_1  == Bit(dwCRC, 1)
      X16    == Xor1(BCC_0, DATA_0)
      X15    == Xor1(BCC_1, X16)
      s1     == dwCRC \div 2
      s2     == BitAnd(s1, 24574)
      s3     == BitOr(s2, X15)
  IN  BitOr(s3, X16 * (2 ^ 15))

\* one pass of the body of the for loop of dex_crc16, for bit j of the byte
crc16_bit(dwCRC, byte, j) ==
  LET DATA_0 == Bit(byte, j)
      BCC_0  == Bit(dwCRC, 0)
      BCC_1  == Bit(dwCRC, 1)
      BCC_14 == Bit(dwCRC, 14)
      X16    == Xor1(BCC_0, DATA_0)
      X15    == Xor1(BCC_1, X16)
      X2     == Xor1(BCC_14, X16)
      s1     == dwCRC \div 2
      s2     == BitAnd(s1, 24574)
      s3     == BitOr(s2, X15)
      s4     == BitOr(s3, X2 * (2 ^ 13))
  IN  BitOr(s4, X16 * (2 ^ 15))

RECURSIVE crc16_from(_, _, _)
crc16_from(dwCRC, byte, j) ==
  IF j = 8 THEN dwCRC ELSE crc16_from(crc16_bit(dwCRC, byte, j), byte, j + 1)

dex_crc16(dwCRC, byte) == crc16_from(dwCRC, byte, 0)

\* "crc = 0; for byte in bytes: if byte not excluded: crc = dex_crc16(crc, byte)"
RECURSIVE CrcFoldFrom(_, _, _)
CrcFoldFrom(crc, bytes, excluded) ==
  IF bytes = <<>> THEN crc
  ELSE LET next == IF Head(bytes) \in excluded THEN crc
                   ELSE dex_crc16(crc, Head(bytes))
       \* the CASE makes the state a value before the next byte is folded
       IN  CASE next >= 0 -> CrcFoldFrom(next, Tail(bytes), excluded)

\* int.to_bytes(2, 'little')
to_bytes_little(v) == <<v % 256, (v \div 256) % 256>>

\* int.from_bytes(b, byteorder='little'), for the 0, 1 or 2 bytes a read gives
from_bytes_little(b) ==
  IF Len(b) = 0 THEN 0
  ELSE IF Len(b) = 1 THEN b[1]
  ELSE b[1] + 256 * b[2]

EndsWith(s, t) ==
  Len(s) >= Len(t) /\ SubSeq(s, Len(s) - Len(t) + 1, Len(s)) = t

(* -------------------------- first handshake ---------------------------- *)
\* the receive rule with only DLE skipped
FirstCalcCrcDleOnly(msg) == CrcFoldFrom(0, msg, {DLE})

\* the CRC the first handshake computes over the received body
FirstCalcCrc(msg) == CrcFoldFrom(0, msg, {DLE, SOH})

(* -------------------------- second handshake --------------------------- *)
SecondMessage ==
  <<DLE, SOH>> \o VMD_CommunicationID \o <<82>> \o VMD_RevisionLevel \o <<DLE, ETX>>

\* the identification CRC folded with the data-line rule
SecondCrcSkipDle(msg) == CrcFoldFrom(0, msg, {DLE})

SecondCrc(msg) == CrcFoldFrom(0, msg, {})

SecondCrcBytes(crc) == to_bytes_little(crc)

SecondFrame == SecondMessage \o SecondCrcBytes(SecondCrc(SecondMessage))

(* ----------------------------- data lines ------------------------------ *)
\* str.isspace() for the code points the payload may hold
IsSpace(c) == c \in {9, 10, 11, 12, 13, 28, 29, 30, 31, 32, 133, 160}

RECURSIVE LStrip(_)
LStrip(s) == IF s # <<>> /\ IsSpace(Head(s)) THEN LStrip(Tail(s)) ELSE s

RECURSIVE RStrip(_)
RStrip(s) ==
  IF s # <<>> /\ IsSpace(s[Len(s)]) THEN RStrip(SubSeq(s, 1, Len(s) - 1)) ELSE s

\* str.strip()
Strip(s) == RStrip(LStrip(s))

\* str.encode('utf-8') for code points below 0x800
RECURSIVE Utf8(_)
Utf8(s) ==
  IF s = <<>> THEN <<>>
  ELSE (IF Head(s) < 128 THEN <<Head(s)>>
        ELSE <<192 + (Head(s) \div 64), 128 + (Head(s) % 64)>>) \o Utf8(Tail(s))

\* the argument dex_transfer_file passes: line.strip() + '\r\n'
NormalizeLine(line) == Strip(line) \o <<CR, LF>>

LineSuffix(is_last_line) == IF is_last_line THEN <<DLE, ETX>> ELSE <<DLE, ETB>>

DataBytes(line, is_last_line) == Utf8(line) \o LineSuffix(is_last_line)

\* the data-line CRC folded with the identification rule, no byte skipped
LineCrcNoSkip(data_bytes) == CrcFoldFrom(0, data_bytes, {})

\* crc = 0; for byte in data_bytes: if byte != 0x10: crc = dex_crc16(crc, byte)
LineCrc(data_bytes) == CrcFoldFrom(0, data_bytes, {DLE})

\* the message send_data_line prepares
LineMessage(line, is_last_line) ==
  LET data_bytes == DataBytes(line, is_last_line)
  IN  <<DLE, STX>> \o data_bytes \o to_bytes_little(LineCrc(data_bytes))

\* a last-line test that is off by one
IsLastLineOffByOne(k, lines) == (k = Len(lines))

IsLastLine(k, lines) == (k = Len(lines) - 1)

(* ------------------------------ payload -------------------------------- *)
\* line k (1-based) of the payload file as file.readlines() returns it
FileLine(k) ==
  IF k = 1 THEN <<32, 65, 49, 10>>
  ELSE IF k = 2 THEN <<16, 67, 10>>
  ELSE <<66, 48 + (k % 10), 10>>

Payloads == { [k \in 1..n |-> FileLine(k)] : n \in 0..MaxLines }

(* ------------------------------- state --------------------------------- *)
VARIABLES
  pc,                 \* position of the driver in main and the function it runs
  inbuf,              \* input buffer of serial_port (in_waiting = Len(inbuf))
  written,            \* the serial_port.write calls of this cycle, in order
  elapsed,            \* ticks of time.time() - start_time in the loop the driver is in
  stale,              \* bytes at the head of inbuf that arrived before the port was
                      \* closed or before the current data line was first written
  message,            \* bytearray message of dex_first_handshake
  crc_received,       \* crc_received of dex_first_handshake
  line_message,       \* message of send_data_line
  i,                  \* index i of the for loop of dex_transfer_file
  naks,               \* NAK responses read for the current line
  junk,               \* a response other than ACK0, ACK1, NAK was read for the line
  evadts_file_lines,  \* the global payload
  first_result,       \* what dex_first_handshake returned in this cycle
  second_result,      \* what dex_second_handshake returned in this cycle
  errs,               \* error lines the handshakes and the transfer printed in this cycle
  line_errors,        \* lines for which send_data_line printed its timeout error
  fn_arg,             \* the arguments of a function that is studied on its own
  fn_res              \* what that function returned, <<>> before it is applied

vars == <<pc, inbuf, stale, written, elapsed, message, crc_received,
          line_message, i, naks, junk, evadts_file_lines, first_result,
          second_result, errs, line_errors, fn_arg, fn_res>>

\* "time.time() - start_time < limit" is false
expired == elapsed >= DeadlineTicks

\* the loops with a wall-clock deadline
TimedPcs == {"h1_wait_enq", "h1_wait_eot", "h2_wait_ack0", "h2_wait_ack1",
             "tf_wait_ack0", "tf_wait_resp"}

Write(stage, line, bytes) == [stage |-> stage, line |-> line, bytes |-> bytes]

Init ==
  /\ pc = "cycle_start"
  /\ inbuf = <<>>
  /\ stale = 0
  /\ written = <<>>
  /\ elapsed = 0
  /\ message = <<>>
  /\ crc_received = <<>>
  /\ line_message = <<>>
  /\ i = 0
  /\ naks = 0
  /\ junk = FALSE
  /\ evadts_file_lines \in Payloads
  /\ first_result = "none"
  /\ second_result = "none"
  /\ errs = {}
  /\ line_errors = {}
  /\ fn_arg = <<>>
  /\ fn_res = <<>>

(* ------------------------------- peer ---------------------------------- *)
\* the bytes the device at the other end of the line may send while the
\* driver is at position p
PeerBytes(p) ==
  IF p \in {"sleep", "h1_wait_enq", "h1_send_ack0"} THEN {ENQ, DLE}
  ELSE IF p \in {"h1_read_body", "h1_read_crc"} THEN {DLE, SOH, ETX, 64}
  ELSE IF p \in {"h1_send_ack1", "h1_wait_eot"} THEN {EOT, ETX}
  ELSE IF p \in {"h2_send_enq", "h2_wait_ack0", "h2_send_id", "h2_wait_ack1",
                 "tf_send_enq", "tf_wait_ack0"} THEN {DLE, 48, 49}
  ELSE IF p \in {"tf_loop", "tf_wait_resp"} THEN {DLE, 48, 49, NAK[1]}
  ELSE {}

RECURSIVE CountByte(_, _)
CountByte(s, b) ==
  IF s = <<>> THEN 0
  ELSE (IF Head(s) = b THEN 1 ELSE 0) + CountByte(Tail(s), b)

\* the bytes the input buffer holds at most while the driver is at position
\* p: one more in the first wait for an ACK, where a 2-byte chunk and the
\* byte after it can then be in the buffer together
InCapacity(p) == IF p = "h2_wait_ack0" THEN MaxIn + 1 ELSE MaxIn

\* a byte of the peer arrives in the input buffer of the open port
PeerSend ==
  /\ Len(inbuf) < InCapacity(pc)
  /\ \E b \in PeerBytes(pc) :
       /\ b = NAK[1] => naks + CountByte(inbuf, b) < MaxNak
       /\ inbuf' = Append(inbuf, b)
  /\ UNCHANGED <<pc, stale, written, elapsed, message, crc_received, line_message, i,
                 naks, junk, evadts_file_lines, fn_arg, fn_res, first_result, second_result,
                 errs, line_errors>>

\* the wall clock advances by one tick while the driver is in a timed loop
Expire ==
  /\ pc \in TimedPcs
  /\ ~expired
  /\ elapsed' = elapsed + 1
  /\ UNCHANGED <<pc, inbuf, stale, written, message, crc_received, line_message, i,
                 naks, junk, evadts_file_lines, fn_arg, fn_res, first_result, second_result,
                 errs, line_errors>>

(* ------------------------------- main ---------------------------------- *)
\* a port opened with no reset of its input buffer
ResetInputKeep(buf) == buf

\* serial_port.reset_input_buffer()
ResetInput(buf) == <<>>

\* with serial.Serial(...): reset_input_buffer(); reset_output_buffer()
OpenPort ==
  /\ pc = "cycle_start"
  /\ pc' = "sleep"
  /\ inbuf' = ResetInput(inbuf)
  /\ stale' = Len(inbuf')
  /\ written' = <<>>
  /\ elapsed' = 0
  /\ message' = <<>>
  /\ crc_received' = <<>>
  /\ line_message' = <<>>
  /\ i' = 0
  /\ naks' = 0
  /\ junk' = FALSE
  /\ first_result' = "none"
  /\ second_result' = "none"
  /\ errs' = {}
  /\ line_errors' = {}
  /\ UNCHANGED <<evadts_file_lines, fn_arg, fn_res>>

\* time.sleep(2), then dex_first_handshake calls wait_for_enq
Sleep ==
  /\ pc = "sleep"
  /\ pc' = "h1_wait_enq"
  /\ elapsed' = 0
  /\ UNCHANGED <<inbuf, stale, written, message, crc_received, line_message, i, naks,
                 junk, evadts_file_lines, fn_arg, fn_res, first_result, second_result, errs,
                 line_errors>>

\* main entering the second handshake whatever the first one returned
AfterFirstUngated(res) == "h2_send_enq"

\* where main goes when dex_first_handshake has returned res
AfterFirst(res) == IF res = "ok" THEN "h2_send_enq" ELSE "cycle_end"

MainAfterFirst ==
  /\ pc = "main_first_returned"
  /\ pc' = AfterFirst(first_result)
  /\ UNCHANGED <<inbuf, stale, written, elapsed, message, crc_received, line_message,
                 i, naks, junk, evadts_file_lines, fn_arg, fn_res, first_result, second_result,
                 errs, line_errors>>

\* where main goes when dex_second_handshake has returned res
AfterSecond(res) == IF res = "ok" THEN "tf_send_enq" ELSE "cycle_end"

MainAfterSecond ==
  /\ pc = "main_second_returned"
  /\ pc' = AfterSecond(second_result)
  /\ UNCHANGED <<inbuf, stale, written, elapsed, message, crc_received, line_message,
                 i, naks, junk, evadts_file_lines, fn_arg, fn_res, first_result, second_result,
                 errs, line_errors>>

\* print("Restarting the process..."), the with block closes the port, and
\* while True starts the next cycle; the unread bytes are dropped by the close
\* or are still there when the port is opened again
Restart ==
  /\ pc = "cycle_end"
  /\ pc' = "cycle_start"
  /\ inbuf' \in {inbuf, <<>>}
  /\ stale' = Len(inbuf')
  /\ UNCHANGED <<written, elapsed, message, crc_received, line_message, i,
                 naks, junk, evadts_file_lines, fn_arg, fn_res, first_result, second_result,
                 errs, line_errors>>

(* -------------------------- wait primitives ---------------------------- *)
\* a wait that takes any byte for the awaited one
WaitByteAny(awaited) == TRUE

\* wait_for_enq / wait_for_eot: "if in_waiting > 0: data = read(1);
\* if data == awaited: return True", taken while the deadline has not passed
WaitByteFound(awaited) == Head(inbuf) = awaited

\* wait_for_ack: "if in_waiting >= 2: data = read(2); if data == expected_ack:
\* return True"
WaitAckReady == Len(inbuf) >= 2

WaitAckFound(expected_ack) == SubSeq(inbuf, 1, 2) = expected_ack

\* a wait that moves on by one byte after a chunk that is not the ACK
WaitAckRestSlide(buf) == Tail(buf)

\* what read(2) leaves in the buffer
WaitAckRest(buf) == SubSeq(buf, 3, Len(buf))

\* the bytes of the stale head of the buffer that are left when n bytes are read
StaleLeft(n) == IF stale > n THEN stale - n ELSE 0

(* ------------------------- dex_first_handshake ------------------------- *)
FirstWaitEnqRead ==
  /\ pc = "h1_wait_enq"
  /\ ~expired
  /\ Len(inbuf) > 0
  /\ inbuf' = Tail(inbuf)
  /\ stale' = StaleLeft(1)
  /\ IF WaitByteFound(ENQ)
       THEN pc' = "h1_send_ack0" /\ elapsed' = 0
       ELSE UNCHANGED <<pc, elapsed>>
  /\ UNCHANGED <<written, message, crc_received, line_message, i, naks, junk,
                 evadts_file_lines, fn_arg, fn_res, first_result, second_result, errs,
                 line_errors>>

FirstWaitEnqTimeout ==
  /\ pc = "h1_wait_enq"
  /\ expired
  /\ errs' = errs \cup {"First Handshake Error: ENQ not received"}
  /\ first_result' = "fail"
  /\ pc' = "main_first_returned"
  /\ elapsed' = 0
  /\ UNCHANGED <<inbuf, stale, written, message, crc_received, line_message, i, naks,
                 junk, evadts_file_lines, fn_arg, fn_res, second_result, line_errors>>

\* send_ack(serial_port, DLE + b'\x30'); message = bytearray()
FirstSendAck0 ==
  /\ pc = "h1_send_ack0"
  /\ written' = Append(written, Write("h1", -1, ACK0))
  /\ message' = <<>>
  /\ pc' = "h1_read_body"
  /\ UNCHANGED <<inbuf, stale, elapsed, crc_received, line_message, i, naks, junk,
                 evadts_file_lines, fn_arg, fn_res, first_result, second_result, errs,
                 line_errors>>

\* an exit test that looks at the last byte only
BodyCompleteEtxOnly(msg) == Len(msg) >= 1 /\ msg[Len(msg)] = ETX

\* the exit test of the while True loop that reads the body
BodyComplete(msg) == Len(msg) >= 2 /\ SubSeq(msg, Len(msg) - 1, Len(msg)) = <<DLE, ETX>>

\* byte = serial_port.read(1); message.append(byte[0]), a byte being there
FirstReadBody ==
  /\ pc = "h1_read_body"
  /\ Len(inbuf) > 0
  /\ Len(message) < MaxBody
  /\ message' = Append(message, Head(inbuf))
  /\ inbuf' = Tail(inbuf)
  /\ stale' = StaleLeft(1)
  /\ pc' = IF BodyComplete(message') THEN "h1_read_crc" ELSE "h1_read_body"
  /\ UNCHANGED <<written, elapsed, crc_received, line_message, i, naks, junk,
                 evadts_file_lines, fn_arg, fn_res, first_result, second_result, errs,
                 line_errors>>

\* serial_port.read(1) returns b'' when the port's 1 s read timeout passes
\* with no byte: byte[0] raises IndexError, which nothing catches
FirstReadBodyTimeout ==
  /\ pc = "h1_read_body"
  /\ Len(inbuf) = 0
  /\ pc' = "crashed"
  /\ UNCHANGED <<inbuf, stale, written, elapsed, message, crc_received, line_message,
                 i, naks, junk, evadts_file_lines, fn_arg, fn_res, first_result, second_result,
                 errs, line_errors>>

\* crc_received = serial_port.read(2): two bytes, or the fewer bytes that are
\* there when the read timeout passes
FirstReadCrc ==
  /\ pc = "h1_read_crc"
  /\ LET n == IF Len(inbuf) >= 2 THEN 2 ELSE Len(inbuf)
     IN  /\ crc_received' = SubSeq(inbuf, 1, n)
         /\ inbuf' = SubSeq(inbuf, n + 1, Len(inbuf))
         /\ stale' = StaleLeft(n)
  /\ pc' = "h1_check_format"
  /\ UNCHANGED <<written, elapsed, message, line_message, i, naks, junk,
                 evadts_file_lines, fn_arg, fn_res, first_result, second_result, errs,
                 line_errors>>

\* if not message.endswith(DLE + ETX): return False (the locals of the
\* handshake end when it returns)
FirstCheckFormat ==
  /\ pc = "h1_check_format"
  /\ IF ~EndsWith(message, <<DLE, ETX>>)
       THEN /\ errs' = errs \cup {"First Handshake Error: Invalid message format received"}
            /\ first_result' = "fail"
            /\ pc' = "main_first_returned"
            /\ message' = <<>>
            /\ crc_received' = <<>>
       ELSE /\ pc' = "h1_check_crc"
            /\ UNCHANGED <<errs, first_result, message, crc_received>>
  /\ UNCHANGED <<inbuf, stale, written, elapsed, line_message, i, naks, junk,
                 evadts_file_lines, fn_arg, fn_res, second_result, line_errors>>

\* if crc_received_value != crc_calculated: return False
CrcMismatch(received, msg) == from_bytes_little(received) # FirstCalcCrc(msg)

FirstCheckCrc ==
  /\ pc = "h1_check_crc"
  /\ IF CrcMismatch(crc_received, message)
       THEN /\ errs' = errs \cup {"First Handshake Error: CRC mismatch"}
            /\ first_result' = "fail"
            /\ pc' = "main_first_returned"
            /\ message' = <<>>
            /\ crc_received' = <<>>
       ELSE /\ pc' = "h1_send_ack1"
            /\ UNCHANGED <<errs, first_result, message, crc_received>>
  /\ UNCHANGED <<inbuf, stale, written, elapsed, line_message, i, naks, junk,
                 evadts_file_lines, fn_arg, fn_res, second_result, line_errors>>

\* send_ack(serial_port, DLE + b'\x31'), then wait_for_eot starts its clock
FirstSendAck1 ==
  /\ pc = "h1_send_ack1"
  /\ written' = Append(written, Write("h1", -1, ACK1))
  /\ pc' = "h1_wait_eot"
  /\ elapsed' = 0
  /\ UNCHANGED <<inbuf, stale, message, crc_received, line_message, i, naks, junk,
                 evadts_file_lines, fn_arg, fn_res, first_result, second_result, errs,
                 line_errors>>

FirstWaitEotRead ==
  /\ pc = "h1_wait_eot"
  /\ ~expired
  /\ Len(inbuf) > 0
  /\ inbuf' = Tail(inbuf)
  /\ stale' = StaleLeft(1)
  /\ IF WaitByteFound(EOT)
       THEN /\ first_result' = "ok"
            /\ pc' = "main_first_returned"
            /\ elapsed' = 0
            /\ message' = <<>>
            /\ crc_received' = <<>>
       ELSE UNCHANGED <<pc, elapsed, first_result, message, crc_received>>
  /\ UNCHANGED <<written, line_message, i, naks, junk,
                 evadts_file_lines, fn_arg, fn_res, second_result, errs, line_errors>>

FirstWaitEotTimeout ==
  /\ pc = "h1_wait_eot"
  /\ expired
  /\ errs' = errs \cup {"First Handshake Error: EOT not received"}
  /\ first_result' = "fail"
  /\ pc' = "main_first_returned"
  /\ elapsed' = 0
  /\ message' = <<>>
  /\ crc_received' = <<>>
  /\ UNCHANGED <<inbuf, stale, written, line_message, i, naks, junk,
                 evadts_file_lines, fn_arg, fn_res, second_result, line_errors>>

(* ------------------------- dex_second_handshake ------------------------ *)
\* send_enq(serial_port), then wait_for_ack starts its clock
SecondSendEnq ==
  /\ pc = "h2_send_enq"
  /\ written' = Append(written, Write("h2", -1, <<ENQ>>))
  /\ pc' = "h2_wait_ack0"
  /\ elapsed' = 0
  /\ UNCHANGED <<inbuf, stale, message, crc_received, line_message, i, naks, junk,
                 evadts_file_lines, fn_arg, fn_res, first_result, second_result, errs,
                 line_errors>>

\* the second handshake going on whatever chunk it read
SecondAfterAck0Any(found) == "h2_send_id"

\* where dex_second_handshake goes when a 2-byte chunk was read while it
\* waits for ACK0
SecondAfterAck0(found) == IF found THEN "h2_send_id" ELSE "h2_wait_ack0"

SecondWaitAck0Read ==
  /\ pc = "h2_wait_ack0"
  /\ ~expired
  /\ WaitAckReady
  /\ inbuf' = WaitAckRest(inbuf)
  /\ stale' = StaleLeft(2)
  /\ pc' = SecondAfterAck0(WaitAckFound(ACK0))
  /\ elapsed' = IF pc' = pc THEN elapsed ELSE 0
  /\ UNCHANGED <<written, message, crc_received, line_message, i,
                 naks, junk, evadts_file_lines, fn_arg, fn_res, first_result, second_result,
                 errs, line_errors>>

SecondWaitAck0Timeout ==
  /\ pc = "h2_wait_ack0"
  /\ expired
  /\ errs' = errs \cup {"Second Handshake Error: ACK0 not received"}
  /\ second_result' = "fail"
  /\ pc' = "main_second_returned"
  /\ elapsed' = 0
  /\ UNCHANGED <<inbuf, stale, written, message, crc_received, line_message, i, naks,
                 junk, evadts_file_lines, fn_arg, fn_res, first_result, line_errors>>

\* serial_port.write(message + crc_bytes), then wait_for_ack starts its clock
SecondSendId ==
  /\ pc = "h2_send_id"
  /\ written' = Append(written, Write("h2", -1, SecondFrame))
  /\ pc' = "h2_wait_ack1"
  /\ elapsed' = 0
  /\ UNCHANGED <<inbuf, stale, message, crc_received, line_message, i, naks, junk,
                 evadts_file_lines, fn_arg, fn_res, first_result, second_result, errs,
                 line_errors>>

\* where dex_second_handshake goes when a 2-byte chunk was read while it
\* waits for ACK1
SecondAfterAck1(found) == IF found THEN "h2_send_eot" ELSE "h2_wait_ack1"

SecondWaitAck1Read ==
  /\ pc = "h2_wait_ack1"
  /\ ~expired
  /\ WaitAckReady
  /\ inbuf' = WaitAckRest(inbuf)
  /\ stale' = StaleLeft(2)
  /\ pc' = SecondAfterAck1(WaitAckFound(ACK1))
  /\ elapsed' = IF pc' = pc THEN elapsed ELSE 0
  /\ UNCHANGED <<written, message, crc_received, line_message, i,
                 naks, junk, evadts_file_lines, fn_arg, fn_res, first_result, second_result,
                 errs, line_errors>>

SecondWaitAck1Timeout ==
  /\ pc = "h2_wait_ack1"
  /\ expired
  /\ errs' = errs \cup {"Second Handshake Error: ACK1 not received"}
  /\ second_result' = "fail"
  /\ pc' = "main_second_returned"
  /\ elapsed' = 0
  /\ UNCHANGED <<inbuf, stale, written, message, crc_received, line_message, i, naks,
                 junk, evadts_file_lines, fn_arg, fn_res, first_result, line_errors>>

\* serial_port.write(EOT); return True
SecondSendEot ==
  /\ pc = "h2_send_eot"
  /\ written' = Append(written, Write("h2", -1, <<EOT>>))
  /\ second_result' = "ok"
  /\ pc' = "main_second_returned"
  /\ UNCHANGED <<inbuf, stale, elapsed, message, crc_received, line_message, i, naks,
                 junk, evadts_file_lines, fn_arg, fn_res, first_result, errs, line_errors>>

(* -------------------------- dex_transfer_file -------------------------- *)
\* send_enq(serial_port), then wait_for_ack starts its clock
TransferSendEnq ==
  /\ pc = "tf_send_enq"
  /\ written' = Append(written, Write("tf", -1, <<ENQ>>))
  /\ pc' = "tf_wait_ack0"
  /\ elapsed' = 0
  /\ UNCHANGED <<inbuf, stale, message, crc_received, line_message, i, naks, junk,
                 evadts_file_lines, fn_arg, fn_res, first_result, second_result, errs,
                 line_errors>>

TransferWaitAck0Read ==
  /\ pc = "tf_wait_ack0"
  /\ ~expired
  /\ WaitAckReady
  /\ inbuf' = WaitAckRest(inbuf)
  /\ stale' = StaleLeft(2)
  /\ IF WaitAckFound(ACK0)
       THEN pc' = "tf_loop" /\ i' = 0 /\ elapsed' = 0
       ELSE UNCHANGED <<pc, i, elapsed>>
  /\ UNCHANGED <<written, message, crc_received, line_message, naks,
                 junk, evadts_file_lines, fn_arg, fn_res, first_result, second_result, errs,
                 line_errors>>

\* a transfer that goes on to the lines without ACK0
TransferNoAck0Continue == "tf_loop"

\* where dex_transfer_file goes when ACK0 did not come after its ENQ
TransferNoAck0 == "cycle_end"

TransferWaitAck0Timeout ==
  /\ pc = "tf_wait_ack0"
  /\ expired
  /\ errs' = errs \cup {"Error: ACK0 not received before sending the first line"}
  /\ pc' = TransferNoAck0
  /\ elapsed' = 0
  /\ UNCHANGED <<inbuf, stale, written, message, crc_received, line_message, i, naks,
                 junk, evadts_file_lines, fn_arg, fn_res, first_result, second_result,
                 line_errors>>

\* the for loop is over: dex_transfer_file returns and its locals end, main
\* prints the completion
TransferDone ==
  /\ pc = "tf_loop"
  /\ i >= Len(evadts_file_lines)
  /\ pc' = "cycle_end"
  /\ line_message' = <<>>
  /\ i' = 0
  /\ naks' = 0
  /\ junk' = FALSE
  /\ UNCHANGED <<inbuf, stale, written, elapsed, message, crc_received,
                 evadts_file_lines, fn_arg, fn_res, first_result, second_result, errs,
                 line_errors>>

(* ---------------------------- send_data_line --------------------------- *)
\* the next line of the for loop: send_data_line builds the message, writes
\* it and starts its clock
SendDataLine ==
  /\ pc = "tf_loop"
  /\ i < Len(evadts_file_lines)
  /\ line_message' = LineMessage(NormalizeLine(evadts_file_lines[i + 1]),
                                 IsLastLine(i, evadts_file_lines))
  /\ written' = Append(written, Write("tf", i, line_message'))
  /\ naks' = 0
  /\ junk' = FALSE
  /\ pc' = "tf_wait_resp"
  /\ elapsed' = 0
  /\ stale' = Len(inbuf)
  /\ UNCHANGED <<inbuf, message, crc_received, i, evadts_file_lines, fn_arg, fn_res,
                 first_result, second_result, errs, line_errors>>

\* response = serial_port.read(2) under "if serial_port.in_waiting > 0": two
\* bytes, or the one byte that is there when the read timeout passes
LineResponse(buf) == SubSeq(buf, 1, IF Len(buf) >= 2 THEN 2 ELSE Len(buf))

\* a NAK branch that frames the line again, as a line that is not the last
ResendRebuilt(msg, line, is_last_line) == LineMessage(line, FALSE)

\* what the NAK branch writes
Resend(msg, line, is_last_line) == msg

\* a NAK branch that starts the clock of the line again
AfterNakRestart(t) == 0

\* time.time() - start_time after the NAK branch, which leaves start_time alone
AfterNak(t) == t

\* a timeout that ends the transfer
AfterLineTimeoutAbort == "cycle_end"

\* where dex_transfer_file goes when send_data_line returned on its timeout
AfterLineTimeout == "tf_loop"

\* the line of the for loop that follows line k
NextLine(k) == k + 1

LineRead ==
  /\ pc = "tf_wait_resp"
  /\ ~expired
  /\ Len(inbuf) > 0
  /\ LET response == LineResponse(inbuf)
     IN  /\ inbuf' = SubSeq(inbuf, Len(response) + 1, Len(inbuf))
         /\ stale' = StaleLeft(Len(response))
         /\ IF response = ACK0 \/ response = ACK1
              THEN /\ i' = NextLine(i)
                   /\ pc' = "tf_loop"
                   /\ elapsed' = 0
                   /\ UNCHANGED <<written, naks, junk>>
              ELSE IF response = NAK
              THEN /\ written' = Append(written,
                         Write("tf", i, Resend(line_message,
                                               NormalizeLine(evadts_file_lines[i + 1]),
                                               IsLastLine(i, evadts_file_lines))))
                   /\ naks' = naks + 1
                   /\ elapsed' = AfterNak(elapsed)
                   /\ UNCHANGED <<pc, i, junk>>
              ELSE /\ junk' = TRUE
                   /\ UNCHANGED <<pc, i, written, naks, elapsed>>
  /\ UNCHANGED <<message, crc_received, line_message,
                 evadts_file_lines, fn_arg, fn_res, first_result, second_result, errs,
                 line_errors>>

\* print("Error: Did not receive ACK0, ACK1 or NAK in time"); the line is over
LineTimeout ==
  /\ pc = "tf_wait_resp"
  /\ expired
  /\ line_errors' = line_errors \cup {i}
  /\ i' = NextLine(i)
  /\ pc' = AfterLineTimeout
  /\ elapsed' = 0
  /\ UNCHANGED <<inbuf, stale, written, message, crc_received, line_message, naks,
                 junk, evadts_file_lines, fn_arg, fn_res, first_result, second_result, errs>>

(* ------------------------------ the system ----------------------------- *)
Next ==
  \/ PeerSend
  \/ Expire
  \/ OpenPort
  \/ Sleep
  \/ MainAfterFirst
  \/ MainAfterSecond
  \/ Restart
  \/ FirstWaitEnqRead
  \/ FirstWaitEnqTimeout
  \/ FirstSendAck0
  \/ FirstReadBody
  \/ FirstReadBodyTimeout
  \/ FirstReadCrc
  \/ FirstCheckFormat
  \/ FirstCheckCrc
  \/ FirstSendAck1
  \/ FirstWaitEotRead
  \/ FirstWaitEotTimeout
  \/ SecondSendEnq
  \/ SecondWaitAck0Read
  \/ SecondWaitAck0Timeout
  \/ SecondSendId
  \/ SecondWaitAck1Read
  \/ SecondWaitAck1Timeout
  \/ SecondSendEot
  \/ TransferSendEnq
  \/ TransferWaitAck0Read
  \/ TransferWaitAck0Timeout
  \/ TransferDone
  \/ SendDataLine
  \/ LineRead
  \/ LineTimeout

Spec == Init /\ [][Next]_vars

(* --------------------- the transfer, with fairness --------------------- *)
\* the state in which dex_transfer_file enters its for loop: both handshakes
\* have returned success and the transfer ENQ was answered by ACK0
TransferEntered ==
  /\ pc = "tf_loop"
  /\ inbuf = <<>>
  /\ stale = 0
  /\ written = <<Write("h1", -1, ACK0), Write("h1", -1, ACK1),
                 Write("h2", -1, <<ENQ>>), Write("h2", -1, SecondFrame),
                 Write("h2", -1, <<EOT>>), Write("tf", -1, <<ENQ>>)>>
  /\ elapsed = 0
  /\ message = <<>>
  /\ crc_received = <<>>
  /\ line_message = <<>>
  /\ i = 0
  /\ naks = 0
  /\ junk = FALSE
  /\ first_result = "ok"
  /\ second_result = "ok"
  /\ errs = {}
  /\ line_errors = {}

TransferInit ==
  /\ TransferEntered
  /\ evadts_file_lines \in Payloads
  /\ fn_arg = <<>>
  /\ fn_res = <<>>

TransferNext ==
  \/ PeerSend
  \/ Expire
  \/ SendDataLine
  \/ LineRead
  \/ LineTimeout
  \/ TransferDone

\* the wall clock goes on, and the loop of send_data_line, whose passes take
\* at most the 1 s read timeout plus DEXDELAY, tests its deadline again
TransferFair ==
  /\ TransferInit
  /\ [][TransferNext]_vars
  /\ WF_vars(Expire)
  /\ WF_vars(LineTimeout)

(* ------------------- the CRC functions on their own -------------------- *)
\* the driver's variables while a function is applied on its own
NoDriver(p) ==
  /\ pc = p
  /\ inbuf = <<>>
  /\ stale = 0
  /\ written = <<>>
  /\ elapsed = 0
  /\ message = <<>>
  /\ crc_received = <<>>
  /\ line_message = <<>>
  /\ i = 0
  /\ naks = 0
  /\ junk = FALSE
  /\ evadts_file_lines = <<>>
  /\ first_result = "none"
  /\ second_result = "none"
  /\ errs = {}
  /\ line_errors = {}

\* the bytes of the bodies the two folds are applied to
FoldBytes == {DLE, SOH, ETX, 64, 193}

FoldBodies == UNION { [1..n -> FoldBytes] : n \in 1..MaxFold }

FoldInit ==
  /\ NoDriver("fold")
  /\ fn_arg \in FoldBodies
  /\ fn_res = <<>>

\* the fold of dex_first_handshake and the fold of send_data_line, both
\* applied to the same body
FoldApply ==
  /\ pc = "fold"
  /\ fn_res = <<>>
  /\ fn_res' = <<FirstCalcCrc(fn_arg), LineCrc(fn_arg)>>
  /\ UNCHANGED <<pc, inbuf, stale, written, elapsed, message, crc_received,
                 line_message, i, naks, junk, evadts_file_lines, first_result,
                 second_result, errs, line_errors, fn_arg>>

FoldNext == FoldApply

FoldSpec == FoldInit /\ [][FoldNext]_vars

\* the CRC states dex_crc16 is applied to: the small ones, every single bit,
\* the polynomial and all ones
StepStates == (0..MaxState) \cup { 2 ^ k : k \in 0..15 } \cup {40961, 65535}

StepInit ==
  /\ NoDriver("step")
  /\ fn_arg \in StepStates \X (0..255)
  /\ fn_res = <<>>

\* dex_crc16(dwCRC, byte)
StepApply ==
  /\ pc = "step"
  /\ fn_res = <<>>
  /\ fn_res' = <<dex_crc16(fn_arg[1], fn_arg[2])>>
  /\ UNCHANGED <<pc, inbuf, stale, written, elapsed, message, crc_received,
                 line_message, i, naks, junk, evadts_file_lines, first_result,
                 second_result, errs, line_errors, fn_arg>>

StepNext == StepApply

StepSpec == StepInit /\ [][StepNext]_vars

(* ------------------------- what is checked ----------------------------- *)
StageWrites(stage) == SelectSeq(written, LAMBDA w : w.stage = stage)

DataWrites == SelectSeq(written, LAMBDA w : w.stage = "tf" /\ w.line >= 0)

LineWrites(k) == SelectSeq(written, LAMBDA w : w.stage = "tf" /\ w.line = k)

StageRank(stage) == IF stage = "h1" THEN 1 ELSE IF stage = "h2" THEN 2 ELSE 3

\* C1: in every cycle the writes of the stages come in the order first
\* handshake, second handshake, transfer; the second handshake has written
\* only if the first handshake of the cycle returned success, the transfer has
\* written only if the second handshake of the cycle returned success, and
\* after a failed handshake no later stage has written.
C1_StagesGated ==
  /\ \A k \in 1..Len(written) :
       /\ written[k].stage = "h2" => first_result = "ok"
       /\ written[k].stage = "tf" => first_result = "ok" /\ second_result = "ok"
       /\ \A j \in 1..k : StageRank(written[j].stage) <= StageRank(written[k].stage)
  /\ first_result = "fail" => StageWrites("h2") = <<>> /\ StageWrites("tf") = <<>>
  /\ second_result = "fail" => StageWrites("tf") = <<>>

C1_Witness ==
  /\ pc = "cycle_end"
  /\ first_result = "ok"
  /\ second_result = "ok"
  /\ DataWrites # <<>>

\* C2: the driver never stops: it is never in a state from which no further
\* cycle is started.
C2_DriverNeverStops == pc # "crashed"

\* C3: when the first handshake has read a body and a 2-byte CRC: if the
\* little-endian value of the CRC differs from the fold from 0 over the body
\* with the DLE and SOH bytes skipped, the CRC check makes the handshake
\* return failure with nothing written, so that ACK1 is not written and the
\* wait for EOT is not entered in that cycle; if they are equal, the check
\* leads to the step that writes ACK1.
C3_CrcDecides ==
  /\ [](/\ pc \in {"h1_send_ack1", "h1_wait_eot"} /\ Len(crc_received) = 2 =>
             crc_received[1] + 256 * crc_received[2] = CrcFoldFrom(0, message, {16, 1})
        /\ "First Handshake Error: CRC mismatch" \in errs =>
             /\ first_result = "fail"
             /\ pc \in {"main_first_returned", "cycle_end", "cycle_start"}
             /\ \A k \in 1..Len(written) : written[k].bytes # <<16, 49>>)
  /\ [][/\ pc = "h1_check_crc" /\ Len(crc_received) = 2 /\ pc' # pc =>
             IF crc_received[1] + 256 * crc_received[2] # CrcFoldFrom(0, message, {16, 1})
               THEN /\ pc' = "main_first_returned"
                    /\ first_result' = "fail"
                    /\ "First Handshake Error: CRC mismatch" \in errs'
                    /\ written' = written
               ELSE /\ pc' = "h1_send_ack1"
                    /\ errs' = errs
        /\ pc = "h1_send_ack1" /\ pc' # pc =>
             /\ written' = Append(written, Write("h1", -1, <<16, 49>>))
             /\ pc' = "h1_wait_eot"]_vars

C3_Witness ==
  /\ Len(crc_received) = 2
  /\ crc_received[1] + 256 * crc_received[2] = CrcFoldFrom(0, message, {16, 1})
  /\ \E k \in 1..Len(message) : message[k] = SOH
  /\ pc = "h1_wait_eot"
  /\ written[Len(written)].bytes = <<16, 49>>

\* the steps of the first handshake: each position and the positions that may
\* follow it
FirstOrder ==
  { <<"h1_wait_enq", "h1_send_ack0">>, <<"h1_send_ack0", "h1_read_body">>,
    <<"h1_read_body", "h1_read_crc">>, <<"h1_read_crc", "h1_check_format">>,
    <<"h1_check_format", "h1_check_crc">>, <<"h1_check_crc", "h1_send_ack1">>,
    <<"h1_send_ack1", "h1_wait_eot">>, <<"h1_wait_eot", "main_first_returned">>,
    <<"h1_wait_enq", "main_first_returned">>,
    <<"h1_check_format", "main_first_returned">>,
    <<"h1_check_crc", "main_first_returned">>,
    <<"h1_read_body", "crashed">> }

FirstPcs == { p[1] : p \in FirstOrder }

\* C4: the first handshake goes through WAIT_ENQ, SEND_ACK0, READ_BODY,
\* VERIFY_CRC, SEND_ACK1, WAIT_EOT, DONE in this order: it has written nothing
\* while it waits for ENQ and leaves that wait for SEND_ACK0 only by reading
\* an ENQ byte, what it has written when it returns success is exactly ACK0
\* then ACK1, and it returns success only by reading an EOT byte before the
\* deadline of the wait that started after ACK1 was written.
C4_FirstHandshakeOrder ==
  /\ [](/\ pc \in {"sleep", "h1_wait_enq"} => written = <<>>
        /\ first_result = "ok" =>
             StageWrites("h1") = <<Write("h1", -1, <<16, 48>>),
                                   Write("h1", -1, <<16, 49>>)>>)
  /\ [][/\ pc \in FirstPcs /\ pc' # pc => <<pc, pc'>> \in FirstOrder
        /\ pc = "h1_wait_enq" /\ pc' = "h1_send_ack0" =>
             ~expired /\ inbuf # <<>> /\ Head(inbuf) = 5
        /\ first_result # "ok" /\ first_result' = "ok" =>
             /\ pc = "h1_wait_eot"
             /\ ~expired
             /\ inbuf # <<>> /\ Head(inbuf) = 4 /\ inbuf' = Tail(inbuf)
             /\ written # <<>>
             /\ written[Len(written)] = Write("h1", -1, <<16, 49>>)
             /\ written' = written]_vars

C4_Witness ==
  /\ pc = "main_first_returned"
  /\ first_result = "ok"
  /\ Len(written) = 2

\* C5: the identification message of the second handshake, when it has been
\* written, is DLE SOH "SWR0010001" "R" "R01L01" DLE ETX followed by 0x6B 0x02,
\* the little-endian bytes of 0x026B, the fold from 0 over all 21 body bytes.
C5_IdentificationBytes ==
  LET h2w == StageWrites("h2")
  IN  Len(h2w) >= 2 =>
        h2w[2].bytes = <<16, 1, 83, 87, 82, 48, 48, 49, 48, 48, 48, 49, 82,
                         82, 48, 49, 76, 48, 49, 16, 3, 107, 2>>

C5_Witness == pc = "h2_wait_ack1" /\ Len(StageWrites("h2")) = 2

\* C6: the second handshake goes through SEND_ENQ, WAIT_ACK0, SEND_ID,
\* WAIT_ACK1, SEND_EOT, DONE: what it has written is a prefix of ENQ, the
\* identification message, EOT; it leaves the wait for ACK0 for SEND_ID only
\* by reading the chunk ACK0 before the deadline and the wait for ACK1 for
\* SEND_EOT only by reading the chunk ACK1 before the deadline; when ACK0 did
\* not come it has returned failure having written ENQ only, and when ACK1 did
\* not come it has returned failure having written no EOT.
C6_SecondHandshakeOrder ==
  /\ [](LET h2w == StageWrites("h2")
            id  == <<16, 1>> \o VMD_CommunicationID \o <<82>> \o VMD_RevisionLevel
                     \o <<16, 3, 107, 2>>
            all == <<Write("h2", -1, <<5>>), Write("h2", -1, id),
                     Write("h2", -1, <<4>>)>>
        IN  /\ Len(h2w) <= 3
            /\ h2w = SubSeq(all, 1, Len(h2w))
            /\ pc \in {"h2_send_enq"} => Len(h2w) = 0
            /\ pc \in {"h2_wait_ack0", "h2_send_id"} => Len(h2w) = 1
            /\ pc \in {"h2_wait_ack1", "h2_send_eot"} => Len(h2w) = 2
            /\ second_result = "ok" => Len(h2w) = 3
            /\ "Second Handshake Error: ACK0 not received" \in errs =>
                 second_result = "fail" /\ Len(h2w) = 1 /\ StageWrites("tf") = <<>>
            /\ "Second Handshake Error: ACK1 not received" \in errs =>
                 second_result = "fail" /\ Len(h2w) = 2 /\ StageWrites("tf") = <<>>)
  /\ [][/\ pc = "h2_wait_ack0" /\ pc' # pc =>
             \/ /\ pc' = "h2_send_id"
                /\ ~expired /\ Len(inbuf) >= 2 /\ SubSeq(inbuf, 1, 2) = <<16, 48>>
             \/ /\ pc' = "main_second_returned"
                /\ expired /\ second_result' = "fail" /\ written' = written
        /\ pc = "h2_wait_ack1" /\ pc' # pc =>
             \/ /\ pc' = "h2_send_eot"
                /\ ~expired /\ Len(inbuf) >= 2 /\ SubSeq(inbuf, 1, 2) = <<16, 49>>
             \/ /\ pc' = "main_second_returned"
                /\ expired /\ second_result' = "fail" /\ written' = written
        /\ pc' = "h2_send_id" /\ pc # pc' => pc = "h2_wait_ack0"
        /\ pc' = "h2_send_eot" /\ pc # pc' => pc = "h2_wait_ack1"]_vars

C6_Witness ==
  /\ pc = "cycle_end"
  /\ "Second Handshake Error: ACK1 not received" \in errs
  /\ Len(StageWrites("h2")) = 2

\* C7: when a data line has been left on ACK0 or ACK1 after k responses that
\* were all NAK, read before the line's deadline, the frame of the line has
\* been written k+1 times, every time with the same bytes, and no error is
\* recorded for the line; while the line waits, its frame has been written
\* once plus once per NAK read; an error is recorded for a line only when its
\* deadline has passed, never when a NAK is read.
C7_NakRetransmits ==
  /\ [](/\ pc = "tf_wait_resp" =>
             /\ Len(LineWrites(i)) = naks + 1
             /\ \A k \in 1..Len(LineWrites(i)) :
                  LineWrites(i)[k].bytes = LineWrites(i)[1].bytes
        /\ pc = "tf_loop" /\ i > 0 /\ (i - 1) \notin line_errors /\ ~junk =>
             /\ Len(LineWrites(i - 1)) = naks + 1
             /\ \A k \in 1..Len(LineWrites(i - 1)) :
                  LineWrites(i - 1)[k].bytes = LineWrites(i - 1)[1].bytes
             /\ LineWrites(i) = <<>>)
  /\ [][/\ line_errors' \ line_errors # {} => pc = "tf_wait_resp" /\ expired
        /\ pc = "tf_wait_resp" /\ i' # i /\ ~expired =>
             /\ Len(inbuf) >= 2
             /\ SubSeq(inbuf, 1, 2) \in {<<16, 48>>, <<16, 49>>}
             /\ written' = written
             /\ line_errors' = line_errors
        /\ pc = "tf_wait_resp" /\ naks' = naks + 1 =>
             /\ inbuf # <<>> /\ Head(inbuf) = 21
             /\ Len(written') = Len(written) + 1]_vars

C7_Witness ==
  /\ pc = "tf_loop"
  /\ i > 0
  /\ (i - 1) \notin line_errors
  /\ ~junk
  /\ naks = 2
  /\ Len(LineWrites(i - 1)) = 3

\* the lines of which a frame has been written
LinesWritten == { DataWrites[k].line : k \in 1..Len(DataWrites) }

\* C8: a data line whose deadline passed with no NAK read has had its frame
\* written exactly once; the timeout of a line makes the engine go to the
\* next line of the loop and writes nothing; and when a cycle whose transfer
\* ENQ was answered by ACK0 ends, a frame has been written for every line of
\* the payload.
C8_TimeoutSkipsLine ==
  /\ [](/\ pc = "tf_loop" /\ i > 0 /\ (i - 1) \in line_errors /\ naks = 0 =>
             Len(LineWrites(i - 1)) = 1
        /\ /\ pc = "cycle_end"
           /\ second_result = "ok"
           /\ "Error: ACK0 not received before sending the first line" \notin errs
           => LinesWritten = 0..(Len(evadts_file_lines) - 1))
  /\ [][line_errors' \ line_errors # {} =>
          /\ line_errors' = line_errors \cup {i}
          /\ i' = i + 1
          /\ pc' = "tf_loop"
          /\ written' = written]_vars

C8_Witness ==
  /\ pc = "cycle_end"
  /\ Len(evadts_file_lines) >= 2
  /\ line_errors = 0..(Len(evadts_file_lines) - 1)
  /\ Len(DataWrites) = Len(evadts_file_lines)

\* the text of payload line k (0-based) without its surrounding white space
C9_Text(k) ==
  IF k = 0 THEN <<65, 49>>
  ELSE IF k = 1 THEN <<16, 67>>
  ELSE <<66, 48 + ((k + 1) % 10)>>

C10_TransferEnq ==
  /\ [](LET tfw == StageWrites("tf")
        IN  /\ tfw # <<>> => tfw[1] = Write("tf", -1, <<5>>)
            /\ \A k \in 2..Len(tfw) : tfw[k].line >= 0 /\ tfw[k].bytes # <<5>>
            /\ pc = "tf_wait_ack0" => Len(tfw) = 1
            /\ "Error: ACK0 not received before sending the first line" \in errs =>
                 Len(tfw) = 1 /\ DataWrites = <<>>)
  /\ [][/\ pc = "tf_wait_ack0" /\ pc' = "tf_loop" =>
             ~expired /\ Len(inbuf) >= 2 /\ SubSeq(inbuf, 1, 2) = <<16, 48>>
        /\ pc = "tf_wait_ack0" /\ pc' \notin {"tf_wait_ack0", "tf_loop"} =>
             expired /\ pc' = "cycle_end" /\ written' = written]_vars

C10_Witness ==
  /\ pc = "cycle_end"
  /\ "Error: ACK0 not received before sending the first line" \in errs
  /\ Len(StageWrites("tf")) = 1

\* the fold of dex_crc16 over all the bytes of a sequence
RECURSIVE C11_Fold(_, _)
C11_Fold(crc, bytes) ==
  IF bytes = <<>> THEN crc
  ELSE LET next == dex_crc16(crc, Head(bytes))
       IN  CASE next >= 0 -> C11_Fold(next, Tail(bytes))

\* what C11 says of the data frame w, written for a payload of n lines
C11_FrameCrc(w, n) ==
  LET sfx    == IF w.line = n - 1 THEN 3 ELSE 23
      folded == SelectSeq(C9_Text(w.line) \o <<13, 10, sfx>>, LAMBDA b : b # 16)
      crc    == C11_Fold(0, folded)
      tail   == SubSeq(w.bytes, Len(w.bytes) - 1, Len(w.bytes))
  IN  /\ tail = <<crc % 256, crc \div 256>>
      /\ w.line = 0 => tail = (IF sfx = 23 THEN <<229, 158>> ELSE <<229, 145>>)
      /\ w.line = 1 => tail = (IF sfx = 23 THEN <<194, 233>> ELSE <<194, 230>>)

\* C11: whenever the engine writes a data frame (first transmission or
\* retransmission), the two CRC bytes that end it are the little-endian bytes
\* of the fold from 0 over the text of the line, CR, LF and the suffix byte
\* (ETX or ETB), where every byte 0x10 is left out (the DLE of the suffix and
\* any 0x10 of the text) and no other byte is; the DLE STX that starts the
\* frame is not folded. Line "A1" gives E5 9E with ETB and E5 91 with ETX,
\* line 0x10 "C" gives C2 E9 with ETB and C2 E6 with ETX.
C11_DataLineCrc ==
  [][(Len(written') = Len(written) + 1 /\ pc' = "tf_wait_resp") =>
       /\ written'[Len(written')].stage = "tf"
       /\ written'[Len(written')].line = i
       /\ C11_FrameCrc(written'[Len(written')], Len(evadts_file_lines))]_vars

C11_Witness ==
  /\ pc = "tf_wait_resp"
  /\ i = 1
  /\ written[Len(written)] =
       Write("tf", 1, <<16, 2, 16, 67, 13, 10, 16, 3, 194, 230>>)
  /\ \E k \in 1..Len(written) :
       written[k] = Write("tf", 0, <<16, 2, 65, 49, 13, 10, 16, 23, 229, 158>>)

C12_Has(body, b) == \E k \in 1..Len(body) : body[k] = b

C12_NotDle(body) == Len(SelectSeq(body, LAMBDA b : b # 16))

\* C12 as stated: for every body that holds a DLE and an SOH, the fold that
\* skips DLE and SOH and the fold that skips only DLE give different values.
C12_FoldsAlwaysDiffer ==
  fn_res # <<>> /\ C12_Has(fn_arg, 16) /\ C12_Has(fn_arg, 1) =>
    fn_res[1] # fn_res[2]

\* C12: for every body that holds a DLE and an SOH and at most two bytes that
\* are not DLE, the fold that skips DLE and SOH and the fold that skips only
\* DLE give different values; with three such bytes the two values can be
\* equal: for the body DLE SOH 0xC1 SOH both are 0x90C1.
C12_FoldsDiffer ==
  /\ fn_res # <<>> /\ C12_Has(fn_arg, 16) /\ C12_Has(fn_arg, 1)
       /\ C12_NotDle(fn_arg) <= 2 => fn_res[1] # fn_res[2]
  /\ fn_res # <<>> /\ fn_arg = <<16, 1, 193, 1>> => fn_res = <<37057, 37057>>

C12_Witness ==
  /\ fn_arg = <<16, 1, 64>>
  /\ fn_res # <<>>
  /\ fn_res[1] # fn_res[2]

\* no stage of the cycle has left anything behind
C13_NoStageState ==
  /\ written = <<>>
  /\ message = <<>>
  /\ crc_received = <<>>
  /\ line_message = <<>>
  /\ i = 0 /\ naks = 0 /\ ~junk
  /\ first_result = "none" /\ second_result = "none"
  /\ errs = {} /\ line_errors = {}

\* C13 as stated: at the step by which the first handshake of a cycle begins
\* waiting for ENQ, the input buffer is empty and no stage state of the
\* previous cycle remains, and no byte left unread in the previous cycle is
\* in the buffer of the new one.
C13_StartsEmpty ==
  /\ [](pc \in {"sleep", "h1_wait_enq"} => stale = 0 /\ C13_NoStageState)
  /\ [][pc = "sleep" /\ pc' = "h1_wait_enq" => inbuf' = <<>>]_vars

\* C13: every cycle starts from a reset: the step that opens the port of a
\* cycle empties the input buffer, whatever the previous cycle left in it
\* and however that cycle ended, and while the cycle pauses and waits for
\* ENQ no stage state of the previous cycle remains and no byte left unread
\* in the previous cycle is in the buffer, through the handshakes up to the
\* first data line; but the buffer is emptied before the 2 s pause, not
\* after it: when the first handshake begins waiting for ENQ the buffer holds
\* the bytes the peer sent during the pause, and the wait starts its clock.
C13_CycleStartsClean ==
  /\ [](/\ pc \in {"sleep", "h1_wait_enq"} => stale = 0 /\ C13_NoStageState
        /\ pc \notin {"cycle_start", "cycle_end", "tf_loop", "tf_wait_resp"} =>
             stale = 0)
  /\ [][/\ pc = "cycle_start" /\ pc' # pc => pc' = "sleep" /\ inbuf' = <<>>
        /\ pc = "sleep" /\ pc' = "h1_wait_enq" => inbuf' = inbuf /\ elapsed' = 0]_vars

C13_Witness ==
  /\ pc = "h1_wait_enq"
  /\ elapsed = 0
  /\ inbuf = <<16, 5>>
  /\ stale = 0
  /\ C13_NoStageState

\* C14: the read of the body always ends in an outcome of the handshake: when
\* the read timeout passes with no byte of the peer, the first handshake
\* returns failure to main.
C14_ReadBodyFails ==
  [][pc = "h1_read_body" /\ inbuf = <<>> /\ pc' # pc =>
       pc' = "main_first_returned" /\ first_result' = "fail"]_vars

\* C15: sending one data line always ends: the clock of the line starts at 0
\* when the frame is first written, it never goes back while the line waits,
\* a retransmission after NAK leaves it as it is and happens only before the
\* deadline, and a line that waits for its response is left in the end, for
\* the next line of the loop, whatever the peer answers.
C15_LineTerminates ==
  /\ [][/\ pc = "tf_loop" /\ pc' = "tf_wait_resp" => elapsed' = 0
        /\ pc = "tf_wait_resp" /\ pc' = "tf_wait_resp" =>
             /\ elapsed' >= elapsed
             /\ written' # written =>
                  /\ elapsed < DeadlineTicks
                  /\ elapsed' = elapsed
                  /\ inbuf # <<>> /\ Head(inbuf) = 21]_vars
  /\ \A k \in 0..(MaxLines - 1) :
       (pc = "tf_wait_resp" /\ i = k) ~> (pc = "tf_loop" /\ i = k + 1)

C15_Witness ==
  /\ pc = "tf_loop"
  /\ i = 1
  /\ 0 \in line_errors
  /\ ~junk
  /\ naks = 2
  /\ Len(LineWrites(0)) = 3

\* the waits of wait_for_ack and the ACK each of them expects
C16_AckPcs == {"h2_wait_ack0", "h2_wait_ack1", "tf_wait_ack0"}

C16_Expected(p) == IF p = "h2_wait_ack1" THEN <<16, 49>> ELSE <<16, 48>>

C16_Success(p) ==
  IF p = "h2_wait_ack0" THEN "h2_send_id"
  ELSE IF p = "h2_wait_ack1" THEN "h2_send_eot" ELSE "tf_loop"

\* what C16 says of one step taken while wait_for_ack runs
C16_Step ==
  LET took == Len(inbuf') < Len(inbuf)
      chunk == SubSeq(inbuf, 1, 2)
  IN  /\ written' = written
      /\ took =>
           /\ Len(inbuf) >= 2
           /\ ~expired
           /\ inbuf' = SubSeq(inbuf, 3, Len(inbuf))
           /\ IF chunk = C16_Expected(pc)
                THEN pc' = C16_Success(pc)
                ELSE pc' = pc
      /\ (pc' # pc /\ ~took) =>
           /\ expired
           /\ inbuf' = inbuf
           /\ pc' \in {"main_second_returned", "cycle_end"}
      /\ (took /\ Len(inbuf) >= 3 /\ chunk # C16_Expected(pc)
            /\ SubSeq(inbuf, 2, 3) = C16_Expected(pc)) =>
           (Head(inbuf') = C16_Expected(pc)[2] /\ pc' = pc)

\* C16: wait_for_ack takes bytes from the input only two at a time, only
\* when at least two bytes are there and the deadline has not passed, and
\* each chunk starts where the chunk before it ended; it returns true exactly
\* when a chunk equals the expected ACK, a chunk that differs is dropped and
\* the wait goes on; it returns false only when the deadline has passed, and
\* then reads nothing; it never writes. So an expected ACK that comes after
\* one other byte, its two bytes in two chunks, is not recognized: the chunk
\* that holds its first byte is dropped and its second byte stays in the
\* buffer.
C16_AckChunks == [][(pc \in C16_AckPcs) => C16_Step]_vars

C16_Witness ==
  /\ pc = "h2_wait_ack0"
  /\ ~expired
  /\ inbuf = <<49, 16, 48>>

\* C17: an acknowledgment is counted for the line it answers: when the engine
\* goes on from line i because it read ACK0 or ACK1, the bytes of that chunk
\* reached the input buffer after a frame of line i was written, and were not
\* in the buffer already when the line was first written.
C17_AckForThisLine ==
  [][(pc = "tf_wait_resp" /\ i' = i + 1 /\ line_errors' = line_errors) =>
       stale = 0]_vars

\* C18: the invalid-message-format failure of the first handshake is never
\* taken: whenever the format check is evaluated the body ends with DLE ETX,
\* the error of that check is never recorded, and the first handshake returns
\* failure only from the wait for ENQ on its deadline, from the CRC check on
\* a mismatch, or from the wait for EOT on its deadline.
C18_FormatNeverFails ==
  /\ [](/\ pc = "h1_check_format" =>
             /\ Len(message) >= 2
             /\ message[Len(message) - 1] = 16
             /\ message[Len(message)] = 3
        /\ "First Handshake Error: Invalid message format received" \notin errs
        /\ first_result = "fail" =>
             errs \cap {"First Handshake Error: ENQ not received",
                        "First Handshake Error: CRC mismatch",
                        "First Handshake Error: EOT not received"} # {})
  /\ [][first_result' = "fail" /\ first_result # "fail" =>
          \/ pc = "h1_wait_enq" /\ expired
               /\ "First Handshake Error: ENQ not received" \in errs'
          \/ pc = "h1_check_crc"
               /\ "First Handshake Error: CRC mismatch" \in errs'
          \/ pc = "h1_wait_eot" /\ expired
               /\ "First Handshake Error: EOT not received" \in errs']_vars

C18_Witness ==
  /\ pc = "h1_check_crc"
  /\ Len(message) = 3
  /\ message[1] = 64
  /\ Len(crc_received) = 2

RECURSIVE C19_Xor(_, _)
C19_Xor(x, y) ==
  IF x = 0 THEN y
  ELSE IF y = 0 THEN x
  ELSE ((x + y) % 2) + 2 * C19_Xor(x \div 2, y \div 2)

\* the bitwise CRC-16 step: for the bits of the byte, lowest first, shift the
\* state right by one and XOR 0xA001 into it when the bit shifted out differs
\* from the data bit
RECURSIVE C19_Ref(_, _, _)
C19_Ref(s, b, j) ==
  IF j = 8 THEN s
  ELSE LET out  == (s + ((b \div (2 ^ j)) % 2)) % 2
           next == IF out = 1 THEN C19_Xor(s \div 2, 40961) ELSE s \div 2
       IN  CASE next >= 0 -> C19_Ref(next, b, j + 1)

\* C19: for a 16-bit state s and a byte b, dex_crc16(s, b) is a 16-bit value
\* and is the value of the bitwise CRC-16 step with polynomial 0xA001 (bits
\* of the byte lowest first, state shifted right).
C19_StepIsReference ==
  fn_res # <<>> /\ pc = "step" =>
    /\ fn_res[1] \in 0..65535
    /\ fn_res[1] = C19_Ref(fn_arg[1], fn_arg[2], 0)

C19_Witness ==
  /\ pc = "step"
  /\ fn_arg = <<0, 3>>
  /\ fn_res = <<320>>

\* the byte each of the two one-byte waits awaits
C20_Awaited(p) == IF p = "h1_wait_enq" THEN 5 ELSE 4

\* what C20 says of one step taken while wait_for_enq or wait_for_eot runs
C20_Step ==
  LET took == Len(inbuf') < Len(inbuf)
  IN  /\ written' = written
      /\ took =>
           /\ ~expired
           /\ inbuf' = Tail(inbuf)
           /\ IF Head(inbuf) = C20_Awaited(pc)
                THEN pc' = (IF pc = "h1_wait_enq" THEN "h1_send_ack0"
                            ELSE "main_first_returned")
                     /\ first_result' = (IF pc = "h1_wait_enq" THEN first_result
                                         ELSE "ok")
                ELSE pc' = pc /\ first_result' = first_result
      /\ (pc' # pc /\ ~took) =>
           /\ expired
           /\ inbuf' = inbuf
           /\ pc' = "main_first_returned"
           /\ first_result' = "fail"

\* C20: wait_for_enq and wait_for_eot take the input one byte at a time and
\* only before their deadline; a byte that is not the awaited one (ENQ, EOT)
\* is dropped and the wait goes on; the wait returns true at the first awaited
\* byte it reads and leaves the bytes after it in the buffer; it returns
\* false only when its deadline has passed, reading nothing then; it never
\* writes.
C20_ByteWaits == [][(pc \in {"h1_wait_enq", "h1_wait_eot"}) => C20_Step]_vars

C20_Witness ==
  /\ pc = "h1_wait_eot"
  /\ ~expired
  /\ inbuf = <<3, 4>>

====
